---- MODULE Spec2Model ----
(***************************************************************************)
(* Model of the paginated multi-chain crawl of src/app.js:                 *)
(*   mapWithConcurrency (lines 93-110), the bounded-concurrency runner,    *)
(*   runCrawler / crawlOneChain (lines 283-357), the per-chain page loop.  *)
(*                                                                         *)
(* JavaScript runs one macrotask (a network response, a timer) at a time   *)
(* and drains every promise continuation before the next one.  An action   *)
(* of this model is therefore one macrotask together with all the          *)
(* continuations it makes runnable.                                        *)
(*                                                                         *)
(* The specifications share the variables:                                 *)
(*   SpecMap      mapWithConcurrency alone, over any limit and item count, *)
(*                with a task that returns a value and never throws;       *)
(*   Spec         runCrawler, which calls mapWithConcurrency(chains, 3,    *)
(*                crawlOneChain);                                          *)
(*   SpecRows     runCrawler over one chain whose API knows several        *)
(*                addresses;                                               *)
(*   SpecExtract  extractHotWallet applied again and again to one map;     *)
(*   SpecCsv      toCSV and a quoted-CSV reader;                           *)
(*   SpecFetch    fetchWithProxyFirst and the worker behind the proxy.     *)
(***************************************************************************)
EXTENDS Integers, Sequences, FiniteSets, TLC

\* ---------------------------------------------------------------- bounds
MaxItems  == 5      \* SpecMap: items.length ranges over 0..MaxItems
MaxLimit  == 3      \* SpecMap: limit ranges over 1..MaxLimit
MaxChains == 3      \* Spec: chains.length ranges over 1..MaxChains
MaxPages  == 2      \* Spec: pages ranges over 1..MaxPages
MaxFieldLen == 2    \* SpecCsv: the address has at most MaxFieldLen characters
MaxRuns   == 2      \* SpecUi: at most MaxRuns clicks start a run
RunChains == 2      \* SpecUi: a run crawls the first RunChains of CHAINS

\* ------------------------------------------------------- program constants
CrawlConcurrency == 3                    \* mapWithConcurrency(chains, 3, ...)

CHAINS == <<"bitcoin", "ethereum", "solana", "tron", "dogecoin", "ton">>

HotWalletLabel == "Hot Wallet"

Undefined == <<"undefined">>

VARIABLES
  \* mapWithConcurrency
  items,            \* the items argument
  limit,            \* the limit argument
  results,          \* results[i], i in 0..items.length-1
  nextIndex,        \* next item to start
  running,          \* the Set of unsettled task promises (by item index)
  launched,         \* how many of the starters line 107 has called so far
  st,               \* st[s]: where starter chain s stands: new, race, done
  snap,             \* snap[s]: the promises starter s passed to Promise.race
  waiters,          \* the starters suspended in a race, in order of their call
  returned,         \* mapWithConcurrency (and with it runCrawler) has resolved
  pc,               \* pc[i]: where the task of item i stands
  \* runCrawler
  pages,
  totalChains,
  totalPages,
  completedChains,
  completedPages,
  allResults,
  overall,          \* the last percentage computed (const overall)
  progress,         \* width of #overallProgress, as setProgress left it
  \* crawlOneChain, per chain index
  page,             \* the loop variable i
  merged,           \* the accumulation map, as its values in insertion order
  chainStatus,      \* the text set by setChainStatus
  pageLimit,        \* the limit argument of runCrawler (the page size)
  addrs,            \* the addresses the API has transfers of
  foreign,          \* the chains, other than the one asked for, that the
                    \* records of a page can carry in their chain field
  requests,         \* requests[i]: the offsets chain i has requested, in order
  pending,          \* pending[i]: the page requests of chain i not yet settled
  timers,           \* timers[i]: the pages of chain i whose timeout is armed
  newly,            \* newly[i]: the rows chain i has passed to appendResults
  \* extractHotWallet
  walletMap,        \* the target map written to
  lastAddrInfo,     \* the addrInfo of the last call
  expectedName,     \* the expectedEntityName of every call
  \* toCSV
  csvRows,          \* the rows exported
  csvText,          \* what toCSV returned
  csvParsed,        \* the records a reader gets from csvText
  \* fetchWithProxyFirst and the worker
  fetchArgs,        \* url, options.headers and proxy of the call
  fetchPc,          \* where the call stands
  fetchCalls,       \* the requests fetch() was called with, in order
  fetchResult,      \* what the call resolved or rejected with
  workerCalls,      \* the upstream requests the worker made
  \* init(): the page and its handlers
  runBtn,           \* runBtn.disabled
  searchBtn,        \* searchBtn.disabled
  clearBtn,         \* clearBtn.disabled
  exportBtn,        \* exportBtn.disabled
  entities,         \* the entities of the last search, as listed
  selectedEntity,   \* the entity chosen, if any
  searching,        \* a search handler waits for api.searchEntities
  runs,             \* the calls of runCrawler so far
  stale,            \* chain crawls of earlier runs that have not ended
  staleAwait        \* run handlers of earlier runs that wait for runCrawler

limVars   == <<items, limit, results, nextIndex, running, launched, st, snap,
               waiters, returned, pc>>
crawlVars == <<pages, totalChains, totalPages, completedChains, completedPages,
               allResults, overall, progress, page, merged, chainStatus,
               pageLimit, addrs, foreign, requests, pending, timers, newly>>
extractVars == <<walletMap, lastAddrInfo, expectedName>>
csvVars   == <<csvRows, csvText, csvParsed>>
fetchVars == <<fetchArgs, fetchPc, fetchCalls, fetchResult, workerCalls>>
uiVars    == <<runBtn, searchBtn, clearBtn, exportBtn, entities,
               selectedEntity, searching, runs, stale, staleAwait>>
vars      == <<limVars, crawlVars, extractVars, csvVars, fetchVars, uiVars>>

Min(a, b) == IF a <= b THEN a ELSE b
Max(a, b) == IF a >= b THEN a ELSE b

Indices == 0 .. (Len(items) - 1)

Item(i) == items[i + 1]

\* an optional value (undefined or an object) is a sequence of length 0 or 1
Null == <<>>

Some(x) == <<x>>

\* the state of the parts a specification does not run
NoExtract == walletMap = <<>> /\ lastAddrInfo = Null /\ expectedName = ""

NoCsv == csvRows = <<>> /\ csvText = Null /\ csvParsed = Null

NoFetch ==
  /\ fetchArgs = Null /\ fetchPc = "none" /\ fetchCalls = <<>>
  /\ fetchResult = Null /\ workerCalls = <<>>

NoUi ==
  /\ runBtn = TRUE /\ searchBtn = FALSE /\ clearBtn = FALSE
  /\ exportBtn = TRUE /\ entities = <<>> /\ selectedEntity = Null
  /\ searching = FALSE /\ runs = 0 /\ stale = 0 /\ staleAwait = 0

NoCrawl ==
  /\ items = <<>> /\ limit = 1 /\ results = <<>> /\ nextIndex = 0
  /\ running = {} /\ launched = 0 /\ st = <<>> /\ snap = <<>>
  /\ waiters = <<>> /\ returned = FALSE /\ pc = <<>>
  /\ pages = 0 /\ totalChains = 0 /\ totalPages = 0
  /\ completedChains = 0 /\ completedPages = 0
  /\ allResults = <<>> /\ overall = 0 /\ progress = 0
  /\ page = <<>> /\ merged = <<>> /\ chainStatus = <<>>
  /\ pageLimit = 0 /\ addrs = {} /\ foreign = {}
  /\ requests = <<>> /\ pending = <<>>
  /\ timers = <<>> /\ newly = <<>>

noOther == UNCHANGED <<extractVars, csvVars, fetchVars, uiVars>>

\* ------------------------------------------------------ mapWithConcurrency

\* Array(Math.min(limit, items.length)): the number of starter chains
NumStarters == Min(limit, Len(items))

Starters == 1 .. NumStarters

\* the mutable locals of one mapWithConcurrency call, as one value
Lim == [nextIndex |-> nextIndex, running |-> running, st |-> st,
        snap |-> snap, waiters |-> waiters]

\* runOne(), run by starter s from its entry (or from the point after its
\* await) up to its next await or its return.  The recursion of line 105 is
\* synchronous when line 104 does not await.
RECURSIVE runOne(_, _)
runOne(L, s) ==
  IF L.nextIndex >= Len(items)
  THEN [L EXCEPT !.st[s] = "done", !.snap[s] = {}]
  ELSE LET current == L.nextIndex
           L1 == [L EXCEPT !.nextIndex = current + 1,
                           !.running = @ \cup {current}]
       IN IF Cardinality(L1.running) >= limit
          THEN [L1 EXCEPT !.st[s] = "race", !.snap[s] = L1.running,
                          !.waiters = Append(@, s)]
          ELSE runOne(L1, s)

\* the continuations of the starters in ws, run in that order
RECURSIVE resumeAll(_, _)
resumeAll(L, ws) ==
  IF ws = <<>> THEN L ELSE resumeAll(runOne(L, Head(ws)), Tail(ws))

\* The promise p of task t settles: the finally callback of line 102 deletes
\* it from running, then every Promise.race that was given p resolves and its
\* starter goes on with line 105, in the order the races were called.
settle(L, t) ==
  LET woken == SelectSeq(L.waiters, LAMBDA s : t \in L.snap[s])
      rest  == SelectSeq(L.waiters, LAMBDA s : t \notin L.snap[s])
      L1    == [L EXCEPT !.running = @ \ {t}, !.waiters = rest]
  IN resumeAll(L1, woken)

\* the tasks whose synchronous prefix ran while the locals went from Lim to L
startedBy(L) == nextIndex .. (L.nextIndex - 1)

setLim(L) ==
  /\ nextIndex' = L.nextIndex
  /\ running' = L.running
  /\ st' = L.st
  /\ snap' = L.snap
  /\ waiters' = L.waiters

\* no promise continuation is pending: line 107 has called every starter and
\* the Promise.all of line 108, if it can resolve, has
AllStartersDone == \A s \in Starters : st[s] = "done"

Quiet == launched = NumStarters /\ (AllStartersDone => returned)

\* line 107, one call of runOne by .map()
launch(s) ==
  /\ s = launched + 1
  /\ s \in Starters
  /\ launched' = s
  /\ setLim(runOne(Lim, s))
  /\ UNCHANGED <<items, limit, results, returned>>
  /\ noOther

\* lines 108-109: Promise.all(starters) resolves and results is returned
mapResolves ==
  /\ launched = NumStarters
  /\ AllStartersDone
  /\ ~returned
  /\ returned' = TRUE
  /\ UNCHANGED <<items, limit, results, nextIndex, running, launched, st, snap,
                 waiters, pc>>

MapReturn ==
  /\ mapResolves
  /\ UNCHANGED crawlVars
  /\ noOther

\* ---------------------------------------------- SpecMap: a generic task

\* what task(items[i], i) returns
TaskValue(item, i) == <<item, i>>

InitMap ==
  /\ \E n \in 0 .. MaxItems : items = [k \in 1 .. n |-> 10 * k]
  /\ limit \in 1 .. MaxLimit
  /\ results = [i \in Indices |-> Undefined]
  /\ nextIndex = 0
  /\ running = {}
  /\ launched = 0
  /\ st = [s \in Starters |-> "new"]
  /\ snap = [s \in Starters |-> {}]
  /\ waiters = <<>>
  /\ returned = FALSE
  /\ pc = [i \in Indices |-> "idle"]
  /\ pages = 0 /\ totalChains = 0 /\ totalPages = 0
  /\ completedChains = 0 /\ completedPages = 0
  /\ allResults = <<>> /\ overall = 0 /\ progress = 0
  /\ page = [i \in Indices |-> 0]
  /\ merged = [i \in Indices |-> <<>>]
  /\ chainStatus = [i \in Indices |-> <<"none">>]
  /\ pageLimit = 0 /\ addrs = {} /\ foreign = {}
  /\ requests = [i \in Indices |-> <<>>]
  /\ pending = [i \in Indices |-> 0]
  /\ timers = [i \in Indices |-> {}]
  /\ newly = [i \in Indices |-> <<>>]
  /\ NoExtract /\ NoCsv /\ NoFetch /\ NoUi

MapStarter(s) ==
  /\ launch(s)
  /\ pc' = [i \in Indices |->
              IF i \in startedBy(runOne(Lim, s)) THEN "await" ELSE pc[i]]
  /\ UNCHANGED crawlVars

\* the task of item t returns: line 101 stores its value, then p settles
TaskSettle(t) ==
  /\ Quiet
  /\ pc[t] = "await"
  /\ results' = [results EXCEPT ![t] = TaskValue(Item(t), t)]
  /\ LET L == settle(Lim, t)
     IN /\ setLim(L)
        /\ pc' = [i \in Indices |->
                    IF i = t THEN "done"
                    ELSE IF i \in startedBy(L) THEN "await" ELSE pc[i]]
  /\ UNCHANGED <<items, limit, launched, returned>>
  /\ UNCHANGED crawlVars
  /\ noOther

NextMap ==
  \/ \E s \in Starters : MapStarter(s)
  \/ MapReturn
  \/ \E t \in Indices : TaskSettle(t)

SpecMap == InitMap /\ [][NextMap]_vars


\* ------------------------------------------------------- extractHotWallet

EntityName == "Acme"                     \* entity.name of the selected entity

Addrs == {"a1"}

\* `${address}@${chain}`
Key(address, chain) == address \o "@" \o chain

ArkmUrl(address) == "https://intel.arkm.com/explorer/address/" \o address

\* position of key k in the ordered map m, 0 if absent
RECURSIVE IndexOfKey(_, _, _)
IndexOfKey(m, k, n) ==
  IF n = 0 THEN 0
  ELSE IF m[n].key = k THEN n ELSE IndexOfKey(m, k, n - 1)

setKeyAppend(target, k, v) == Append(target, [key |-> k, value |-> v])

\* target[key] = value: a new key goes last, an existing key keeps its place
setKey(target, k, v) ==
  LET n == IndexOfKey(target, k, Len(target))
  IN IF n = 0 THEN Append(target, [key |-> k, value |-> v])
     ELSE [target EXCEPT ![n] = [key |-> k, value |-> v]]

extractHotWalletAnyCase(addrInfo, target, expectedEntityName) ==
  IF addrInfo = Null THEN target
  ELSE LET info == addrInfo[1]
       IN IF /\ info.entity = expectedEntityName
             /\ info.label \in {HotWalletLabel, "hot wallet"}
          THEN setKey(target, Key(info.address, info.chain),
                      [chain |-> info.chain, address |-> info.address,
                       arkm_url |-> ArkmUrl(info.address),
                       label |-> info.label])
          ELSE target

\* extractHotWallet(addrInfo, target, expectedEntityName); addrInfo?.x of an
\* absent addrInfo is undefined and matches nothing
extractHotWallet(addrInfo, target, expectedEntityName) ==
  IF addrInfo = Null THEN target
  ELSE LET info == addrInfo[1]
       IN IF info.entity = expectedEntityName /\ info.label = HotWalletLabel
          THEN setKey(target, Key(info.address, info.chain),
                      [chain |-> info.chain, address |-> info.address,
                       arkm_url |-> ArkmUrl(info.address),
                       label |-> info.label])
          ELSE target

\* transfers.forEach(...), lines 319-325
RECURSIVE extractAll(_, _)
extractAll(transfers, target) ==
  IF transfers = <<>> THEN target
  ELSE LET tx == Head(transfers)
           t1 == IF tx.fromAddressOwner # Null
                 THEN extractHotWallet(tx.fromAddressOwner, target, EntityName)
                 ELSE extractHotWallet(tx.fromAddress, target, EntityName)
       IN extractAll(Tail(transfers), t1)

\* Object.values(merged)
RECURSIVE values(_)
values(m) == IF m = <<>> THEN <<>> ELSE <<Head(m).value>> \o values(Tail(m))

Range(f) == {f[x] : x \in DOMAIN f}

\* an address record of chain c as the API returns it
Info(a, c, entity, label) ==
  [address |-> a, chain |-> c, entity |-> entity, label |-> label]

\* The transfer records the API can return for chain c: a hot wallet of the
\* entity with no owner record, the same wallet under an owner record of
\* another entity, and a deposit address of the entity.  The chain field of
\* a record is c or one of foreign.
Transfers(c) ==
  {[fromAddressOwner |-> Null,
    fromAddress |-> Some(Info(a, k, EntityName, HotWalletLabel))] :
     a \in addrs, k \in {c} \cup foreign}
  \cup
  {[fromAddressOwner |-> Some(Info(a, k, "Other", HotWalletLabel)),
    fromAddress |-> Some(Info(a, k, EntityName, HotWalletLabel))] :
     a \in addrs, k \in {c} \cup foreign}
  \cup
  {[fromAddressOwner |-> Null,
    fromAddress |-> Some(Info(a, k, EntityName, "Deposit"))] :
     a \in addrs, k \in {c} \cup foreign}

\* the non-empty pages of transfers the API can return for chain c
Pages(c) ==
  {<<x>> : x \in Transfers(c)} \cup
  {<<x, y>> : x \in Transfers(c), y \in Transfers(c)}

\* ------------------------------------------------ runCrawler, crawlOneChain

\* the reasons api.fetchTransfers can throw with: a rejected fetch (the abort
\* of the 15000 ms timer, a network error) and a response with !resp.ok
FailReasons == {"timeout", "http"}

\* Math.round((completedPages / totalPages) * 100)
RoundPercentSwapped(cp, tp) == (200 * tp + cp) \div (2 * cp)

RoundPercent(cp, tp) == (200 * cp + tp) \div (2 * tp)

\* setProgress: Math.max(0, Math.min(100, percent))
setProgress(percent) == Max(0, Min(100, percent))

\* line 312: the pages an exhausted chain adds at its first empty page i
remainingPagesOffByOne(i) == pages - i - 1

remainingPages(i) == pages - i

\* line 342: allResults.push(...list)
pushAllAssign(all, list) == list

pushAll(all, list) == all \o list

\* line 348, in the finally of both outcomes
countChainInTry(cc, outcome) == IF outcome = "failed" THEN cc ELSE cc + 1

countChain(cc, outcome) == cc + 1

\* Number(limitInput.value) || 500, line 516
DefaultLimit == 500

\* the addresses the API knows in SpecRows
RowAddrs == {"a1", "a2", "a3"}

\* line 305
offsetPlusLimit(i) == i + pageLimit

offset(i) == i * pageLimit

\* line 280, cancel(): clearTimeout of the timer armed for page i
cancelNothing(T, i) == T

cancel(T, i) == T \ {i}

\* line 329: Object.values(merged).slice(-deltaNew)
newlyFromStart(m, deltaNew) == SubSeq(values(m), 1, deltaNew)

newlyRows(m, deltaNew) == SubSeq(values(m), Len(m) - deltaNew + 1, Len(m))

\* lines 305-309 run by the chains in S, and the request of chain t (if any,
\* t = -1 for none) settling with the finally of line 338
requestsStep(S, t) ==
  /\ requests' = [i \in Indices |->
                    IF i \in S THEN Append(requests[i], offset(page[i]))
                    ELSE requests[i]]
  /\ pending' = [i \in Indices |->
                   IF i \in S THEN pending[i] + 1
                   ELSE IF i = t THEN pending[i] - 1 ELSE pending[i]]
  /\ timers' = [i \in Indices |->
                  IF i \in S THEN timers[i] \cup {page[i]}
                  ELSE IF i = t THEN cancel(timers[i], page[i]) ELSE timers[i]]

\* the state runCrawler has set up at line 296, before line 354
crawlInit ==
  /\ limit = CrawlConcurrency
  /\ results = [i \in Indices |-> Undefined]
  /\ nextIndex = 0
  /\ running = {}
  /\ launched = 0
  /\ st = [s \in Starters |-> "new"]
  /\ snap = [s \in Starters |-> {}]
  /\ waiters = <<>>
  /\ returned = FALSE
  /\ pc = [i \in Indices |-> "idle"]
  /\ pages \in 1 .. MaxPages
  /\ totalChains = Len(items)
  /\ totalPages = totalChains * pages
  /\ completedChains = 0
  /\ completedPages = 0
  /\ allResults = <<>>
  /\ overall = 0
  /\ progress = setProgress(0)
  /\ page = [i \in Indices |-> 0]
  /\ merged = [i \in Indices |-> <<>>]
  /\ chainStatus = [i \in Indices |-> <<"pending">>]
  /\ pageLimit = DefaultLimit
  /\ requests = [i \in Indices |-> <<>>]
  /\ pending = [i \in Indices |-> 0]
  /\ timers = [i \in Indices |-> {}]
  /\ newly = [i \in Indices |-> <<>>]
  /\ NoExtract /\ NoCsv /\ NoFetch /\ NoUi

Init ==
  /\ \E n \in 1 .. MaxChains : items = SubSeq(CHAINS, 1, n)
  /\ addrs = Addrs
  /\ foreign = {}
  /\ crawlInit

InitRows ==
  /\ \E n \in 1 .. 2 : items = SubSeq(CHAINS, 1, n)
  /\ addrs = RowAddrs
  /\ foreign = {}
  /\ crawlInit

\* line 354 calling line 107: one starter; every crawlOneChain it starts runs
\* up to its first await (line 301, then the request for page 0)
CrawlStarter(s) ==
  /\ launch(s)
  /\ LET S == startedBy(runOne(Lim, s))
     IN /\ pc' = [i \in Indices |-> IF i \in S THEN "await" ELSE pc[i]]
        /\ chainStatus' = [i \in Indices |->
                             IF i \in S THEN <<"running", 0, 0>>
                             ELSE chainStatus[i]]
        /\ requestsStep(S, -1)
  /\ UNCHANGED <<pages, totalChains, totalPages, completedChains,
                 completedPages, allResults, overall, progress, page, merged,
                 pageLimit, addrs, foreign, newly>>

\* crawlOneChain of chain t leaves its try: lines 341-343 (list is what it
\* pushes) or 344-346, then the finally of 347-350; its promise settles and
\* mapWithConcurrency goes on
chainEnds(t, outcome, status, list) ==
  /\ allResults' = IF outcome = "done" THEN pushAll(allResults, list)
                   ELSE allResults
  /\ completedChains' = countChain(completedChains, outcome)
  /\ results' = [results EXCEPT ![t] = Undefined]
  /\ LET L == settle(Lim, t)
     IN /\ setLim(L)
        /\ pc' = [i \in Indices |->
                    IF i = t THEN outcome
                    ELSE IF i \in startedBy(L) THEN "await" ELSE pc[i]]
        /\ chainStatus' = [i \in Indices |->
                             IF i = t THEN status
                             ELSE IF i \in startedBy(L) THEN <<"running", 0, 0>>
                             ELSE chainStatus[i]]
        /\ requestsStep(startedBy(L), t)
  /\ UNCHANGED <<items, limit, launched, returned>>

\* lines 313-315 and 334-336
emitProgress(cp) ==
  /\ completedPages' = cp
  /\ overall' = RoundPercent(cp, totalPages)
  /\ progress' = setProgress(RoundPercent(cp, totalPages))

\* line 306: the 1000 ms timer of chain t fires and the request for page i is
\* issued (lines 307-309)
PageDelay(t) ==
  /\ Quiet
  /\ pc[t] = "delay"
  /\ pc' = [pc EXCEPT ![t] = "await"]
  /\ requestsStep({t}, -1)
  /\ UNCHANGED <<items, limit, results, nextIndex, running, launched, st, snap,
                 waiters, returned>>
  /\ UNCHANGED <<pages, totalChains, totalPages, completedChains,
                 completedPages, allResults, overall, progress, page, merged,
                 chainStatus, pageLimit, addrs, foreign, newly>>
  /\ noOther

\* the request for page i of chain t returns transfers (lines 318-336)
PageRecords(t, transfers) ==
  /\ Quiet
  /\ pc[t] = "await"
  /\ LET before == Len(merged[t])
         m == extractAll(transfers, merged[t])
         found == Len(m)
         deltaNew == found - before
     IN /\ merged' = [merged EXCEPT ![t] = m]
        /\ newly' = [newly EXCEPT
                       ![t] = IF deltaNew > 0 THEN @ \o newlyRows(m, deltaNew)
                              ELSE @]
        /\ page' = [page EXCEPT ![t] = @ + 1]
        /\ emitProgress(completedPages + 1)
        /\ IF page[t] + 1 < pages
           THEN /\ pc' = [pc EXCEPT ![t] = "delay"]
                /\ chainStatus' = [chainStatus EXCEPT
                                     ![t] = <<"running", page[t] + 1, found>>]
                /\ requestsStep({}, t)
                /\ UNCHANGED <<allResults, completedChains>>
                /\ UNCHANGED <<items, limit, results, nextIndex, running,
                               launched, st, snap, waiters, returned>>
           ELSE chainEnds(t, "done", <<"done", found>>, values(m))
  /\ UNCHANGED <<pages, totalChains, totalPages, pageLimit, addrs, foreign>>
  /\ noOther

\* the request for page i of chain t returns no transfers (lines 311-317)
PageEmpty(t) ==
  /\ Quiet
  /\ pc[t] = "await"
  /\ emitProgress(completedPages + remainingPages(page[t]))
  /\ chainEnds(t, "done", <<"done", Len(merged[t])>>, values(merged[t]))
  /\ UNCHANGED <<pages, totalChains, totalPages, page, merged, pageLimit,
                 addrs, foreign, newly>>
  /\ noOther

\* the request for page i of chain t throws (lines 337-339, 344-350); with
\* reason timeout it is the timer of line 279 that fired and aborted it
PageFail(t, reason) ==
  /\ Quiet
  /\ pc[t] = "await"
  /\ reason = "timeout" => page[t] \in timers[t]
  /\ chainEnds(t, "failed", <<"failed", reason>>, <<>>)
  /\ UNCHANGED <<pages, totalChains, totalPages, completedPages, overall,
                 progress, page, merged, pageLimit, addrs, foreign,
                 newly>>
  /\ noOther

Next ==
  \/ \E s \in Starters : CrawlStarter(s)
  \/ MapReturn
  \/ \E t \in Indices : PageDelay(t)
  \/ \E t \in Indices : \E transfers \in Pages(Item(t)) : PageRecords(t, transfers)
  \/ \E t \in Indices : PageEmpty(t)
  \/ \E t \in Indices : \E reason \in FailReasons : PageFail(t, reason)

Spec == Init /\ [][Next]_vars

SpecRows == InitRows /\ [][Next]_vars

\* A run over two chains where the records of a page carry their own chain
\* field, which can be the other chain (lines 116, 309).
InitForeign ==
  /\ items = SubSeq(CHAINS, 1, 2)
  /\ addrs = Addrs
  /\ foreign = Range(items)
  /\ crawlInit

SpecForeign == InitForeign /\ [][Next]_vars


\* ------------------------------------------ SpecExtract: extractHotWallet

\* what addrInfo?.arkhamEntity?.name and addrInfo?.arkhamLabel?.name give
\* when the field is not there
Absent == "<undefined>"

\* The address records extractHotWallet is called with.  The addresses and
\* chains contain the separator of the key, so that two different records
\* can have one key.
ExtractInfos ==
  {Info(a, c, e, l) : a \in {"a", "a@b"}, c \in {"c", "b@c"},
                      e \in {EntityName, "Other", Absent},
                      l \in {HotWalletLabel, "hot wallet", "Deposit", Absent}}

InitExtract ==
  /\ walletMap = <<>>
  /\ lastAddrInfo = Null
  /\ expectedName \in {EntityName, "Other"}
  /\ NoCrawl /\ NoCsv /\ NoFetch /\ NoUi

\* one call extractHotWallet(info, walletMap, expectedName)
Extract(info) ==
  /\ walletMap' = extractHotWallet(info, walletMap, expectedName)
  /\ lastAddrInfo' = info
  /\ UNCHANGED <<expectedName, limVars, crawlVars, csvVars, fetchVars, uiVars>>

NextExtract ==
  \E info \in {Null} \cup {Some(i) : i \in ExtractInfos} : Extract(info)

SpecExtract == InitExtract /\ [][NextExtract]_vars

\* ---------------------------------------------------------- SpecCsv: toCSV

\* A string is the sequence of its characters.
Quote == "\""

Comma == ","

Newline == "\n"

Chars == {"a", Comma, Quote, Newline}

\* the strings of at most n characters
Strs(n) == UNION {[1 .. k -> Chars] : k \in 0 .. n}

\* /[",\n]/.test(v)
needsQuotes(v) == \E k \in DOMAIN v : v[k] \in {Quote, Comma, Newline}

\* v.replace(/"/g, '""')
RECURSIVE doubleQuotes(_)
doubleQuotes(v) ==
  IF v = <<>> THEN <<>>
  ELSE (IF Head(v) = Quote THEN <<Quote, Quote>> ELSE <<Head(v)>>)
       \o doubleQuotes(Tail(v))

\* line 263, the encoding of one value
encodeFieldNoDoubling(v) ==
  IF needsQuotes(v) THEN <<Quote>> \o v \o <<Quote>> ELSE v

encodeField(v) ==
  IF needsQuotes(v) THEN <<Quote>> \o doubleQuotes(v) \o <<Quote>> ELSE v

\* Array.prototype.join
RECURSIVE join(_, _)
join(parts, sep) ==
  IF parts = <<>> THEN <<>>
  ELSE IF Len(parts) = 1 THEN parts[1]
  ELSE parts[1] \o <<sep>> \o join(Tail(parts), sep)

\* line 260
CsvHeader ==
  << <<"c", "h", "a", "i", "n">>, <<"a", "d", "d", "r", "e", "s", "s">>,
     <<"a", "r", "k", "m", "_", "u", "r", "l">>, <<"l", "a", "b", "e", "l">> >>

\* lines 262-264, the line of one row
csvLine(r) ==
  join(<<encodeField(r.chain), encodeField(r.address),
         encodeField(r.arkm_url), encodeField(r.label)>>, Comma)

\* toCSV(rows)
toCSV(rows) ==
  join(<<join(CsvHeader, Comma)>> \o [k \in DOMAIN rows |-> csvLine(rows[k])],
       Newline)

\* A reader of quoted CSV (RFC 4180): fields are separated by commas and
\* records by newlines; a field that starts with a quote runs to the next
\* quote that is not doubled, and a doubled quote in it is one quote.
\* mode: field (at or inside an unquoted field), quoted (inside quotes),
\* closing (just after a quote inside quotes).
RECURSIVE readCsv(_, _, _, _, _, _)
readCsv(text, k, mode, field, rec, recs) ==
  IF k > Len(text) THEN Append(recs, Append(rec, field))
  ELSE LET ch == text[k]
       IN IF mode = "quoted"
          THEN IF ch = Quote
               THEN readCsv(text, k + 1, "closing", field, rec, recs)
               ELSE readCsv(text, k + 1, "quoted", Append(field, ch), rec, recs)
          ELSE IF ch = Quote /\ mode = "closing"
          THEN readCsv(text, k + 1, "quoted", Append(field, Quote), rec, recs)
          ELSE IF ch = Quote /\ field = <<>>
          THEN readCsv(text, k + 1, "quoted", field, rec, recs)
          ELSE IF ch = Comma
          THEN readCsv(text, k + 1, "field", <<>>, Append(rec, field), recs)
          ELSE IF ch = Newline
          THEN readCsv(text, k + 1, "field", <<>>, <<>>,
                       Append(recs, Append(rec, field)))
          ELSE readCsv(text, k + 1, "field", Append(field, ch), rec, recs)

parseCsv(text) == readCsv(text, 1, "field", <<>>, <<>>, <<>>)

InitCsv ==
  /\ \E c \in Strs(1), a \in Strs(MaxFieldLen), u \in Strs(1), l \in Strs(1) :
       csvRows = <<[chain |-> c, address |-> a, arkm_url |-> u, label |-> l]>>
  /\ csvText = Null
  /\ csvParsed = Null
  /\ NoCrawl /\ NoExtract /\ NoFetch /\ NoUi

\* the export button, lines 585-590
Export ==
  /\ csvText = Null
  /\ csvText' = Some(toCSV(csvRows))
  /\ UNCHANGED <<csvRows, csvParsed, limVars, crawlVars, extractVars, fetchVars,
                 uiVars>>

\* a reader parses the exported file
ReadBack ==
  /\ csvText # Null
  /\ csvParsed = Null
  /\ csvParsed' = Some(parseCsv(csvText[1]))
  /\ UNCHANGED <<csvRows, csvText, limVars, crawlVars, extractVars, fetchVars,
                 uiVars>>

NextCsv == Export \/ ReadBack

SpecCsv == InitCsv /\ [][NextCsv]_vars

\* ------------------------------------- SpecFetch: fetchWithProxyFirst, worker

\* A Headers object is a function from the names it holds to their values.
NoHeaders == [n \in {} |-> ""]

headersGet(h, n) == IF n \in DOMAIN h THEN Some(h[n]) ELSE Null

headersDelete(h, n) == [m \in DOMAIN h \ {n} |-> h[m]]

headersSet(h, n, v) == [m \in DOMAIN h \cup {n} |-> IF m = n THEN v ELSE h[m]]

\* a value that an if takes as true: present and not the empty string
truthy(v) == v # Null /\ v[1] # ""

\* URLSearchParams over a sequence of <<name, value>> pairs
paramsGet(ps, n) ==
  IF \E k \in DOMAIN ps : ps[k][1] = n
  THEN Some(ps[CHOOSE k \in DOMAIN ps :
                  ps[k][1] = n /\ \A j \in 1 .. k - 1 : ps[j][1] # n][2])
  ELSE Null

RECURSIVE paramsWithout(_, _)
paramsWithout(ps, n) ==
  IF ps = <<>> THEN <<>>
  ELSE IF Head(ps)[1] = n THEN paramsWithout(Tail(ps), n)
  ELSE <<Head(ps)>> \o paramsWithout(Tail(ps), n)

\* searchParams.set: the first pair of that name takes the value and the
\* others go; with no such pair, one is appended
paramsSet(ps, n, v) ==
  IF \E k \in DOMAIN ps : ps[k][1] = n
  THEN LET f == CHOOSE k \in DOMAIN ps :
                  ps[k][1] = n /\ \A j \in 1 .. k - 1 : ps[j][1] # n
       IN SubSeq(ps, 1, f - 1) \o << <<n, v>> >>
          \o paramsWithout(SubSeq(ps, f + 1, Len(ps)), n)
  ELSE Append(ps, <<n, v>>)

\* The targets of the api object, lines 47, 60, 77.
Targets == {"https://api.arkm.com/chains",
            "https://api.arkhamintelligence.com/transfers?base=Acme"}

\* The keys the handlers pass: trimmed and not empty (lines 442, 469, 514).
ApiKeys == {"k1", "k2"}

\* options.headers: none (health, line 48) or the key (lines 61, 71, 86)
RequestHeaders ==
  {NoHeaders} \cup {headersSet(NoHeaders, "API-Key", k) : k \in ApiKeys}

\* The proxy texts a user can type: one that new URL() rejects, the worker's
\* address, and the worker's address that already has a url parameter.
ProxyBases ==
  {[parses |-> FALSE, origin |-> "worker", params |-> <<>>],
   [parses |-> TRUE, origin |-> "https://worker.example/", params |-> <<>>],
   [parses |-> TRUE, origin |-> "https://worker.example/",
    params |-> << <<"url", "https://old.example/">>, <<"v", "1">> >>]}

\* proxy || undefined, lines 411, 449, 481, 524
Proxies == {Null} \cup {Some(b) : b \in ProxyBases}

\* what a fetch can do: answer with a status, or reject
Statuses == {"200", "404", "500"}

Rejections == {"TypeError", "AbortError"}

\* buildProxyUrl(proxyBase, target)
buildProxyUrlNoCatch(proxyBase, target) ==
  Some([origin |-> proxyBase.origin,
        params |-> paramsSet(proxyBase.params, "url", target)])

buildProxyUrl(proxyBase, target) ==
  IF proxyBase.parses
  THEN Some([origin |-> proxyBase.origin,
             params |-> paramsSet(proxyBase.params, "url", target)])
  ELSE Null

\* lines 33-37: the key moves from API-Key to X-API-Key
migrateKeyKeep(h) ==
  LET apiKey == headersGet(h, "API-Key")
  IN IF truthy(apiKey) THEN headersSet(h, "X-API-Key", apiKey[1]) ELSE h

migrateKey(h) ==
  LET apiKey == headersGet(h, "API-Key")
  IN IF truthy(apiKey)
     THEN headersSet(headersDelete(h, "API-Key"), "X-API-Key", apiKey[1])
     ELSE h

\* cloudflare-worker.js lines 19-22: the headers of the upstream request
upstreamHeaders(h) ==
  LET browserKey == headersGet(h, "X-API-Key")
  IN IF truthy(browserKey)
     THEN headersSet(NoHeaders, "API-Key", browserKey[1])
     ELSE NoHeaders

finish(kind, value) ==
  /\ fetchResult' = Some([kind |-> kind, value |-> value])
  /\ fetchPc' = "done"

noFetchOther == UNCHANGED <<limVars, crawlVars, extractVars, csvVars, uiVars>>

InitFetch ==
  /\ \E u \in Targets, h \in RequestHeaders, p \in Proxies :
       fetchArgs = Some([url |-> u, headers |-> h, proxy |-> p])
  /\ fetchPc = "start"
  /\ fetchCalls = <<>>
  /\ fetchResult = Null
  /\ workerCalls = <<>>
  /\ NoCrawl /\ NoExtract /\ NoCsv /\ NoUi

\* line 26: fetch(url, options)
DirectCall ==
  /\ fetchPc = "start"
  /\ fetchCalls' = <<[via |-> "direct", url |-> fetchArgs[1].url,
                      params |-> <<>>, headers |-> fetchArgs[1].headers,
                      outcome |-> "pending"]>>
  /\ fetchPc' = "direct"
  /\ UNCHANGED <<fetchArgs, fetchResult, workerCalls>>
  /\ noFetchOther

\* line 26: the direct fetch answers; the response is returned, whatever
\* its status
DirectResponds ==
  /\ fetchPc = "direct"
  /\ \E status \in Statuses :
       /\ fetchCalls' = [fetchCalls EXCEPT ![1].outcome = status]
       /\ finish("response", status)
  /\ UNCHANGED <<fetchArgs, workerCalls>>
  /\ noFetchOther

\* lines 27-41: the direct fetch rejects
DirectRejects ==
  /\ fetchPc = "direct"
  /\ \E err \in Rejections :
       LET a       == fetchArgs[1]
           proxied == IF a.proxy # Null
                      THEN buildProxyUrl(a.proxy[1], a.url) ELSE Null
           direct  == [fetchCalls EXCEPT ![1].outcome = err]
       IN IF proxied # Null
          THEN /\ fetchCalls' =
                    Append(direct,
                           [via |-> "proxy", url |-> proxied[1].origin,
                            params |-> proxied[1].params,
                            headers |-> migrateKey(a.headers),
                            outcome |-> "pending"])
               /\ fetchPc' = "proxied"
               /\ UNCHANGED fetchResult
          ELSE /\ fetchCalls' = direct
               /\ finish("error", err)
  /\ UNCHANGED <<fetchArgs, workerCalls>>
  /\ noFetchOther

\* cloudflare-worker.js lines 3-11: the worker answers the preflight
WorkerOptions ==
  /\ fetchPc = "proxied"
  /\ fetchCalls[1].outcome # "AbortError"
  /\ fetchPc' = "preflighted"
  /\ UNCHANGED <<fetchArgs, fetchCalls, fetchResult, workerCalls>>
  /\ noFetchOther

\* cloudflare-worker.js lines 13-36: the worker serves the forwarded GET
WorkerGet ==
  /\ fetchPc \in {"proxied", "preflighted"}
  /\ fetchCalls[1].outcome # "AbortError"
  /\ LET request == fetchCalls[2]
         target  == paramsGet(request.params, "url")
     IN IF ~truthy(target)
        THEN /\ fetchCalls' = [fetchCalls EXCEPT ![2].outcome = "400"]
             /\ finish("response", "400")
             /\ UNCHANGED workerCalls
        ELSE \E status \in Statuses :
               /\ workerCalls' =
                    Append(workerCalls,
                           [url |-> target[1], method |-> "GET",
                            headers |-> upstreamHeaders(request.headers)])
               /\ fetchCalls' = [fetchCalls EXCEPT ![2].outcome = status]
               /\ finish("response", status)
  /\ UNCHANGED fetchArgs
  /\ noFetchOther

\* line 39: the forwarded fetch rejects: the signal was or is now aborted, or
\* the proxy cannot be reached
ProxiedRejects ==
  /\ fetchPc \in {"proxied", "preflighted"}
  /\ \E err \in Rejections :
       /\ fetchCalls[1].outcome = "AbortError" => err = "AbortError"
       /\ fetchCalls' = [fetchCalls EXCEPT ![2].outcome = err]
       /\ finish("error", err)
  /\ UNCHANGED <<fetchArgs, workerCalls>>
  /\ noFetchOther

NextFetch ==
  \/ DirectCall
  \/ DirectResponds
  \/ DirectRejects
  \/ WorkerOptions
  \/ WorkerGet
  \/ ProxiedRejects

SpecFetch == InitFetch /\ [][NextFetch]_vars

\* ------------------------------------------- SpecUi: the handlers of init()

\* a handler runs when no promise continuation is pending
UiQuiet == runs = 0 \/ Quiet

\* what api.searchEntities can give: entities, none, or a failure
SearchOutcomes == {<<"found", <<EntityName>> >>, <<"found", <<>> >>,
                   <<"failed", <<>> >>}

\* lines 284-296 and 354 up to the call of mapWithConcurrency, lines 94-96
runCrawlerCall(n, pg) ==
  /\ items' = SubSeq(CHAINS, 1, n)
  /\ limit' = CrawlConcurrency
  /\ results' = [i \in 0 .. n - 1 |-> Undefined]
  /\ nextIndex' = 0
  /\ running' = {}
  /\ launched' = 0
  /\ st' = [s \in 1 .. Min(CrawlConcurrency, n) |-> "new"]
  /\ snap' = [s \in 1 .. Min(CrawlConcurrency, n) |-> {}]
  /\ waiters' = <<>>
  /\ returned' = FALSE
  /\ pc' = [i \in 0 .. n - 1 |-> "idle"]
  /\ pages' = pg
  /\ totalChains' = n
  /\ totalPages' = n * pg
  /\ completedChains' = 0
  /\ completedPages' = 0
  /\ allResults' = <<>>
  /\ overall' = 0
  /\ progress' = setProgress(0)
  /\ page' = [i \in 0 .. n - 1 |-> 0]
  /\ merged' = [i \in 0 .. n - 1 |-> <<>>]
  /\ chainStatus' = [i \in 0 .. n - 1 |-> <<"pending">>]
  /\ pageLimit' = DefaultLimit
  /\ addrs' = Addrs
  /\ foreign' = {}
  /\ requests' = [i \in 0 .. n - 1 |-> <<>>]
  /\ pending' = [i \in 0 .. n - 1 |-> 0]
  /\ timers' = [i \in 0 .. n - 1 |-> {}]
  /\ newly' = [i \in 0 .. n - 1 |-> <<>>]

\* The page as init() leaves it.  Whether the run and export buttons start
\* disabled is set by the HTML.
InitUi ==
  /\ NoCrawl /\ NoExtract /\ NoCsv /\ NoFetch
  /\ runBtn \in BOOLEAN
  /\ exportBtn \in BOOLEAN
  /\ searchBtn = FALSE /\ clearBtn = FALSE
  /\ entities = <<>> /\ selectedEntity = Null
  /\ searching = FALSE /\ runs = 0 /\ stale = 0 /\ staleAwait = 0

noUiOther == UNCHANGED <<extractVars, csvVars, fetchVars>>

\* lines 438-449, up to the await, with a key and a query typed in.  A search
\* still waiting is aborted (line 447): its handler goes through its catch
\* and its finally (line 460) right after this one has reached its await.
SearchClick ==
  /\ UiQuiet
  /\ searchBtn = FALSE
  /\ searching' = TRUE
  /\ runBtn' = TRUE
  /\ searchBtn' = ~searching
  /\ clearBtn' = ~searching
  /\ UNCHANGED <<exportBtn, entities, selectedEntity, runs, stale, staleAwait>>
  /\ UNCHANGED <<limVars, crawlVars>>
  /\ noUiOther

\* lines 449-461: api.searchEntities settles
SearchDone ==
  /\ UiQuiet
  /\ searching
  /\ searching' = FALSE
  /\ \E o \in SearchOutcomes :
       IF o[1] = "failed"
       THEN UNCHANGED <<entities, runBtn, selectedEntity>>
       ELSE /\ entities' = o[2]
            /\ runBtn' = TRUE
            /\ selectedEntity' = IF o[2] = <<>> THEN selectedEntity ELSE Null
  /\ searchBtn' = FALSE
  /\ clearBtn' = FALSE
  /\ UNCHANGED <<exportBtn, runs, stale, staleAwait>>
  /\ UNCHANGED <<limVars, crawlVars>>
  /\ noUiOther

\* lines 499-509: a choose button of the entity list is clicked
EntityClick(idx) ==
  /\ UiQuiet
  /\ idx \in DOMAIN entities
  /\ selectedEntity' = Some(entities[idx])
  /\ runBtn' = FALSE
  /\ UNCHANGED <<searchBtn, clearBtn, exportBtn, entities, searching, runs,
                 stale, staleAwait>>
  /\ UNCHANGED <<limVars, crawlVars>>
  /\ noUiOther

\* lines 511-524 with a key typed in, up to line 107 of the call of
\* mapWithConcurrency.  The chain crawls of the run before that have not
\* ended go on; they are followed by their number only.
RunClick(n, pg) ==
  /\ UiQuiet
  /\ runBtn = FALSE
  /\ selectedEntity # Null
  /\ runs < MaxRuns
  /\ runs' = runs + 1
  /\ stale' = stale + Cardinality(Indices \ {i \in Indices :
                                              pc[i] \in {"done", "failed"}})
  /\ staleAwait' = IF runs > 0 /\ ~returned THEN staleAwait + 1 ELSE staleAwait
  /\ runBtn' = TRUE /\ exportBtn' = TRUE
  /\ searchBtn' = TRUE /\ clearBtn' = TRUE
  /\ runCrawlerCall(n, pg)
  /\ UNCHANGED <<entities, selectedEntity, searching>>
  /\ noUiOther

\* lines 524-531: runCrawler resolves and the run handler goes on
RunReturn ==
  /\ runs > 0
  /\ mapResolves
  /\ exportBtn' = (Len(allResults) = 0)
  /\ runBtn' = FALSE /\ searchBtn' = FALSE /\ clearBtn' = FALSE
  /\ UNCHANGED <<entities, selectedEntity, searching, runs, stale, staleAwait>>
  /\ UNCHANGED crawlVars
  /\ noUiOther

\* lines 535-548
ClearClick ==
  /\ UiQuiet
  /\ clearBtn = FALSE
  /\ progress' = setProgress(0)
  /\ exportBtn' = TRUE
  /\ UNCHANGED <<runBtn, searchBtn, clearBtn, entities, selectedEntity,
                 searching, runs, stale, staleAwait>>
  /\ UNCHANGED <<pages, totalChains, totalPages, completedChains,
                 completedPages, allResults, overall, page, merged,
                 chainStatus, pageLimit, addrs, foreign, requests, pending,
                 timers, newly>>
  /\ UNCHANGED limVars
  /\ noUiOther

\* A chain crawl of an earlier run ends.  The handler of an earlier run that
\* still waits can go on with lines 525-531 then, and does so at the last
\* such end at the latest.
StaleEnds ==
  /\ UiQuiet
  /\ stale > 0
  /\ stale' = stale - 1
  /\ \E ret \in BOOLEAN, e \in BOOLEAN :
       /\ ret => staleAwait > 0
       /\ (stale = 1 /\ staleAwait > 0) => ret
       /\ IF ret
          THEN /\ staleAwait' = IF stale = 1 THEN 0 ELSE staleAwait - 1
               /\ exportBtn' = e
               /\ runBtn' = FALSE /\ searchBtn' = FALSE /\ clearBtn' = FALSE
          ELSE /\ e
               /\ UNCHANGED <<staleAwait, exportBtn, runBtn, searchBtn,
                              clearBtn>>
  /\ UNCHANGED <<entities, selectedEntity, searching, runs>>
  /\ UNCHANGED <<limVars, crawlVars>>
  /\ noUiOther

NextUi ==
  \/ SearchClick
  \/ SearchDone
  \/ \E idx \in 1 .. 1 : EntityClick(idx)
  \/ \E pg \in 1 .. MaxPages : RunClick(RunChains, pg)
  \/ RunReturn
  \/ ClearClick
  \/ StaleEnds
  \/ \E s \in Starters : CrawlStarter(s)
  \/ \E t \in Indices : PageDelay(t)
  \/ \E t \in Indices : \E transfers \in Pages(Item(t)) : PageRecords(t, transfers)
  \/ \E t \in Indices : PageEmpty(t)
  \/ \E t \in Indices : \E reason \in FailReasons : PageFail(t, reason)

SpecUi == InitUi /\ [][NextUi]_vars

\* ------------------------------------------------------------ properties

\* the tasks that have been started and have not settled
InFlight == {i \in Indices : pc[i] \in {"await", "delay"}}

Terminal == {i \in Indices : pc[i] \in {"done", "failed"}}

AllTerminal == Terminal = Indices

Failed == {i \in Indices : pc[i] = "failed"}

RECURSIVE SumOver(_, _)
SumOver(f, S) ==
  IF S = {} THEN 0
  ELSE LET x == CHOOSE y \in S : TRUE IN f[x] + SumOver(f, S \ {x})

\* C1: at every instant the number of task invocations started and not yet
\* settled is at most limit.
C1_InFlightAtMostLimit == Cardinality(InFlight) <= limit

\* C2: when the promise of mapWithConcurrency has resolved, every item has
\* been started and no task is still running.
C2_ResolvesAfterEveryTask ==
  returned => (nextIndex = Len(items) /\ InFlight = {} /\ AllTerminal)

\* C3: when runCrawler has returned, completedChains equals totalChains and
\* the returned list holds exactly the rows of the chains that finished
\* without failure (so no row is still to be appended to it).
C3_ReturnsAfterAllChains ==
  returned =>
    /\ completedChains = totalChains
    /\ AllTerminal
    /\ Len(allResults) =
         SumOver([i \in Indices |->
                    IF pc[i] = "done" THEN Len(merged[i]) ELSE 0], Indices)

\* C4: when mapWithConcurrency returns, results has the length of items and
\* results[i] is the value task(items[i], i) returned, for every i.
C4_ResultsHoldTaskValues ==
  returned =>
    /\ DOMAIN results = Indices
    /\ \A i \in Indices : results[i] = TaskValue(Item(i), i)

\* C5: once every chain has ended, the rows a failed chain had accumulated
\* before its failing page are in the result list of the run.
C5_FailedChainRowsKept ==
  AllTerminal =>
    \A i \in Failed : Range(values(merged[i])) \subseteq Range(allResults)

C7_FinishedChainAddsPages ==
  /\ completedPages =
       SumOver([i \in Indices |-> IF pc[i] = "done" THEN pages ELSE page[i]],
               Indices)
  /\ (AllTerminal /\ Failed = {}) =>
       (completedPages = totalPages /\ overall = 100)

\* every chain finished, none failed, one was exhausted at page 1 or later
C7_Witness ==
  /\ AllTerminal /\ Failed = {}
  /\ \E i \in Indices : page[i] >= 1 /\ page[i] < pages
  /\ completedPages = totalPages

\* C8: once every chain has ended, completedPages equals totalPages, also
\* when a chain failed.
C8_ProgressCompleteOnFailure == AllTerminal => completedPages = totalPages

\* C9: totalPages is totalChains * pages, the two counters stay within
\* their totals, and completedChains counts each ended chain exactly once.
C9_CountersInRange ==
  /\ totalChains = Len(items)
  /\ totalPages = totalChains * pages
  /\ completedPages \in 0 .. totalPages
  /\ completedChains \in 0 .. totalChains
  /\ completedChains = Cardinality(Terminal)

\* every chain has ended, one of them by failure and one by an empty page
C9_Witness ==
  /\ AllTerminal
  /\ completedChains = totalChains
  /\ Failed # {}
  /\ \E i \in Indices : pc[i] = "done" /\ page[i] < pages

\* C10: every overall percentage emitted is an integer in 0..100 and is not
\* below the one emitted before it.
C10_ProgressMonotonic ==
  [][overall' \in 0 .. 100 /\ overall' >= overall]_vars

\* a percentage strictly between 0 and 100 was emitted while chains crawl
C10_Witness == overall \in 1 .. 99 /\ Cardinality(InFlight) >= 2


InProgress == {i \in Indices : pc[i] \in {"await", "delay"}}

Keys(m) == {m[k].key : k \in DOMAIN m}

IsPrefix(a, b) == Len(a) <= Len(b) /\ SubSeq(b, 1, Len(a)) = a

\* C15: the page requests of a chain are issued one at a time and in index
\* order: the k-th request has offset (k-1) * limit, at most one request of
\* a chain is outstanding, and a request is issued only when every request
\* before it has come back with a non-empty page.
C15_PagesSequential ==
  \A t \in Indices :
    /\ pending[t] \in {0, 1}
    /\ \A k \in DOMAIN requests[t] : requests[t][k] = (k - 1) * pageLimit
    /\ Len(requests[t]) = page[t] + pending[t]
         \/ (pending[t] = 0 /\ Len(requests[t]) = page[t] + 1)

\* a chain waits for its second page while another chain has a request out
C15_Witness ==
  \E t, u \in Indices :
    /\ t # u
    /\ Len(requests[t]) = 2 /\ pending[t] = 1
    /\ pending[u] = 1

\* C16: a chain whose page request fails goes to its failed state in that
\* step, completedChains is incremented, the request is not issued again and
\* the chain never issues another one.
C16_NoRequestAfterFailure ==
  [][\A t \in Indices :
       /\ (pc[t] = "await" /\ pc'[t] = "failed") =>
            /\ completedChains' = completedChains + 1
            /\ requests'[t] = requests[t]
            /\ pending'[t] = 0
       /\ pc[t] = "failed" =>
            /\ pc'[t] = "failed"
            /\ requests'[t] = requests[t]
            /\ pending'[t] = 0]_vars

\* a chain failed on its second page and another chain went on after that
C16_Witness ==
  \E t, u \in Indices :
    /\ pc[t] = "failed" /\ page[t] = 1 /\ Len(requests[t]) = 2
    /\ pc[u] = "await" /\ page[u] = 1
    /\ completedChains >= 1

\* C17: after a non-empty page the rows passed to appendResults are exactly
\* the rows whose keys were not in the map before the page, and nothing is
\* passed when the page added no key.
C17_NewlyIsTheNewRows ==
  [][\A t \in Indices :
       page'[t] = page[t] + 1 =>
         newly'[t] =
           newly[t] \o
           values(SelectSeq(merged'[t],
                            LAMBDA e : e.key \notin Keys(merged[t])))]_vars

\* a second page added rows to a map that already had some: three rows
\* cannot come from one page
C17_Witness ==
  \E t \in Indices :
    /\ page[t] = 2
    /\ Len(merged[t]) = 3
    /\ Len(newly[t]) = 3

\* C18: the only timeout timer of a chain that is armed is the one of its
\* outstanding request; a request that has settled has no armed timer, and
\* the chains that have no request outstanding have none at all.
C18_TimerPerRequest ==
  \A t \in Indices :
    timers[t] = IF pc[t] = "await" THEN {page[t]} ELSE {}

\* one chain timed out on its second page while a sibling still has its
\* request, with its own timer, outstanding
C18_Witness ==
  \E t, u \in Indices :
    /\ chainStatus[t] = <<"failed", "timeout">> /\ page[t] = 1
    /\ timers[t] = {}
    /\ pc[u] = "await" /\ timers[u] = {page[u]}

\* C19: the result list is empty when the run starts, it only grows at its
\* end, it grows only in the step in which a chain finishes its page loop,
\* by all the rows of that chain at once, and it holds no row of a chain
\* that is still in progress.
C19_ResultsAppendOnly ==
  /\ [](\A t \in Indices :
          /\ (\A u \in Indices : pc[u] = "idle") => allResults = <<>>
          /\ pc[t] \in {"idle", "await", "delay"} =>
               Range(values(merged[t])) \cap Range(allResults) = {})
  /\ [][/\ IsPrefix(allResults, allResults')
        /\ allResults' # allResults =>
             \E t \in Indices :
               /\ pc[t] = "await" /\ pc'[t] = "done"
               /\ allResults' = allResults \o values(merged'[t])]_vars

\* two chains have put their rows into the list, a third one holds a row
C19_Witness ==
  /\ Len(allResults) >= 2
  /\ \E t \in Indices : pc[t] \in {"await", "delay"} /\ merged[t] # <<>>


\* the value stored under key k in the map m
Lookup(m, k) == m[CHOOSE n \in DOMAIN m : m[n].key = k].value

\* the last call had an addrInfo of the expected entity with the exact label
LastQualifies ==
  /\ lastAddrInfo # Null
  /\ lastAddrInfo[1].entity = expectedName
  /\ lastAddrInfo[1].label = "Hot Wallet"

LastKey == lastAddrInfo[1].address \o "@" \o lastAddrInfo[1].chain

\* C11: a call writes a row exactly when the entity name is the expected one
\* and the label is exactly "Hot Wallet"; the row is {chain, address,
\* arkm_url, label} under address@chain and every other key is left as it
\* was; any other call, also one with absent fields, leaves the map unchanged.
C11_WritesIffHotWallet ==
  [][IF LastQualifies'
     THEN /\ Keys(walletMap') = Keys(walletMap) \cup {LastKey'}
          /\ Lookup(walletMap', LastKey') =
               [chain |-> lastAddrInfo'[1].chain,
                address |-> lastAddrInfo'[1].address,
                arkm_url |-> "https://intel.arkm.com/explorer/address/"
                               \o lastAddrInfo'[1].address,
                label |-> "Hot Wallet"]
          /\ \A k \in Keys(walletMap) \ {LastKey'} :
               Lookup(walletMap', k) = Lookup(walletMap, k)
     ELSE walletMap' = walletMap]_vars

\* the last call wrote a row into a map that holds another one
C11_Witness ==
  /\ LastQualifies
  /\ LastKey \in Keys(walletMap)
  /\ Len(walletMap) >= 2

\* C12: the map never holds two entries of one key, its number of entries
\* never decreases, and a record whose key is already there replaces the
\* value of that entry (last write wins) and adds none.
C12_OneEntryPerKey ==
  /\ [](\A m, n \in DOMAIN walletMap :
          walletMap[m].key = walletMap[n].key => m = n)
  /\ [][/\ Len(walletMap') >= Len(walletMap)
        /\ (LastQualifies' /\ LastKey' \in Keys(walletMap)) =>
             /\ Len(walletMap') = Len(walletMap)
             /\ Lookup(walletMap', LastKey').address = lastAddrInfo'[1].address
             /\ Lookup(walletMap', LastKey').chain = lastAddrInfo'[1].chain]_vars

\* the last call replaced an entry (its key is not the newest one) and the
\* entry now has the address of that call, which holds the separator
C12_Witness ==
  /\ LastQualifies
  /\ Len(walletMap) >= 2
  /\ walletMap[1].key = LastKey
  /\ lastAddrInfo[1].address = "a@b"
  /\ walletMap[1].value.address = "a@b"


RowFields(r) == <<r.chain, r.address, r.arkm_url, r.label>>

NumQuotes(v) == Cardinality({k \in DOMAIN v : v[k] = "\""})

\* the length of a value as the file must hold it: as it is, or in quotes
\* with every quote twice if it has a comma, a quote or a newline
WrappedLen(v) ==
  IF \E k \in DOMAIN v : v[k] \in {",", "\"", "\n"}
  THEN Len(v) + 2 + NumQuotes(v)
  ELSE Len(v)

\* C14: reading the exported text back gives the header and then the four
\* values of the row unchanged; in the text a value is in quotes exactly when
\* it has a comma, a quote or a newline, with every quote in it doubled.
C14_CsvRoundTrip ==
  /\ csvParsed # Null =>
       /\ Len(csvParsed[1]) = 2
       /\ csvParsed[1][2] = RowFields(csvRows[1])
  /\ csvText # Null =>
       Len(csvText[1]) =
         29 + WrappedLen(csvRows[1].chain) + WrappedLen(csvRows[1].address)
            + WrappedLen(csvRows[1].arkm_url) + WrappedLen(csvRows[1].label)
            + 3

\* a row whose address holds a quote and a comma was exported and read back
C14_Witness ==
  /\ csvParsed # Null
  /\ csvRows[1].address = <<"\"", ",">>
  /\ csvRows[1].label = <<"\n">>


ValidProxy == fetchArgs[1].proxy # Null /\ fetchArgs[1].proxy[1].parses

\* C13: the first call is the direct one, with the caller's url and options;
\* there is at most one more call, the forwarded one, made only after the
\* direct call rejected and with a proxy that parses; a direct response is
\* the result whatever its status, with no forwarded call; with no proxy or
\* one that does not parse, the direct call's error is the result.
C13_DirectFirstForwardOnce ==
  /\ Len(fetchCalls) <= 2
  /\ fetchPc # "start" =>
       /\ Len(fetchCalls) >= 1
       /\ fetchCalls[1].via = "direct"
       /\ fetchCalls[1].url = fetchArgs[1].url
       /\ fetchCalls[1].headers = fetchArgs[1].headers
  /\ Len(fetchCalls) = 2 =>
       /\ fetchCalls[2].via = "proxy"
       /\ fetchCalls[1].outcome \in Rejections
       /\ ValidProxy
  /\ Len(fetchCalls) >= 1 /\ fetchCalls[1].outcome \in Statuses =>
       /\ Len(fetchCalls) = 1
       /\ fetchResult = Some([kind |-> "response",
                              value |-> fetchCalls[1].outcome])
  /\ Len(fetchCalls) >= 1 /\ fetchCalls[1].outcome \in Rejections
       /\ ~ValidProxy =>
       /\ Len(fetchCalls) = 1
       /\ fetchResult = Some([kind |-> "error",
                              value |-> fetchCalls[1].outcome])

\* a call that was forwarded has ended
C13_Witness ==
  /\ fetchPc = "done"
  /\ Len(fetchCalls) = 2
  /\ fetchCalls[1].outcome = "TypeError"

\* C20: with API-Key = k in the caller's headers, the forwarded request has
\* X-API-Key = k and no API-Key, and the worker's upstream request goes to
\* the caller's url with API-Key = k; with no API-Key in the caller's
\* headers, neither request has either header.
C20_KeyRoundTrip ==
  LET h == fetchArgs[1].headers
  IN /\ Len(fetchCalls) = 2 =>
          IF "API-Key" \in DOMAIN h
          THEN /\ "X-API-Key" \in DOMAIN fetchCalls[2].headers
               /\ fetchCalls[2].headers["X-API-Key"] = h["API-Key"]
               /\ "API-Key" \notin DOMAIN fetchCalls[2].headers
          ELSE DOMAIN fetchCalls[2].headers \cap {"API-Key", "X-API-Key"} = {}
     /\ \A k \in DOMAIN workerCalls :
          /\ workerCalls[k].url = fetchArgs[1].url
          /\ IF "API-Key" \in DOMAIN h
             THEN /\ "API-Key" \in DOMAIN workerCalls[k].headers
                  /\ workerCalls[k].headers["API-Key"] = h["API-Key"]
             ELSE DOMAIN workerCalls[k].headers
                    \cap {"API-Key", "X-API-Key"} = {}

\* the worker has sent a key upstream for a proxy address that had its own
\* url parameter
C20_Witness ==
  /\ Len(workerCalls) = 1
  /\ "API-Key" \in DOMAIN fetchArgs[1].headers
  /\ fetchArgs[1].proxy[1].params # <<>>


\* the rows of allResults are pairwise of different (address, chain)
NoDuplicateRows ==
  \A j, k \in DOMAIN allResults :
    (allResults[j].address = allResults[k].address
       /\ allResults[j].chain = allResults[k].chain) => j = k

\* C21: when every chain crawl has ended, allResults has no two rows with
\* the same address and chain, whatever pages the crawls were given.
C21_FinalListDeduplicated == AllTerminal => NoDuplicateRows


\* C22: while a chain crawl of the run has not reached its terminal state,
\* the run button is disabled, and no run is started while chain crawls of
\* an earlier run go on.
C22_OneRunAtATime ==
  /\ (runs > 0 /\ ~AllTerminal) => runBtn
  /\ stale = 0

====
